---------------------------- MODULE Spec2Model ----------------------------
(***************************************************************************)
(* A model of the deep-research API: the formatter of provider responses   *)
(* (src/app/api/utils/formatter.py), the provider client with its retry    *)
(* wrapper (src/app/api/utils/perplexity.py), and the request pipeline of  *)
(* the endpoint (src/app/api/endpoints/research.py, utils/auth.py,         *)
(* models/research.py).                                                    *)
(*                                                                         *)
(* Python strings that the code inspects character by character are        *)
(* sequences of one-character strings.  JSON / Python values of unknown    *)
(* shape are tagged tuples <<tag, payload>>; a dict's payload is the        *)
(* sequence of its <<key, value>> pairs in insertion order.                *)
(***************************************************************************)
EXTENDS Integers, Sequences, FiniteSets, TLC

VARIABLES
    fn,               \* formatter spec: the function that was called, "" before
    arg,              \* formatter spec: the arguments of the call
    ret,              \* formatter spec: what it returned or raised
    ret_later,        \* formatter spec: what a later call with the same arguments returned
    PYTEST_RUNNING,   \* os.getenv("PYTEST_RUNNING") == "1", fixed per process
    now,              \* time.time(), in whole seconds
    request_tracker,  \* research.py:20, dict: client address -> list of timestamps
    admitted,         \* history: client address -> all timestamps ever recorded
    last_check,       \* the last rate_limit_check call and its outcome
    pc,               \* position of the request in flight
    req,              \* the request in flight
    posts,            \* outbound POSTs made for it so far
    delays,           \* backoff delays slept between its attempts
    trace,            \* what the provider did with each of these POSTs
    payload,          \* the JSON body of these POSTs
    result,           \* what execute_research, as decorated, returned or raised
    elapsed,          \* seconds spent in execute_research for the request so far
    response          \* what the caller received

vars == <<fn, arg, ret, ret_later, PYTEST_RUNNING, now, request_tracker,
          admitted, last_check, pc, req, posts, delays, trace, payload, result,
          elapsed, response>>

fmtVars  == <<fn, arg, ret, ret_later>>
rateVars == <<now, request_tracker, admitted, last_check>>
pipeVars == <<pc, req, posts, delays, trace, payload, result, elapsed, response>>

-----------------------------------------------------------------------------
(* Bounds of the model *)

MaxCitations == 3      \* longest citation list given to format_citations
MaxLines == 4          \* most lines of a text given to extract_sections
MaxDomains == 11       \* longest search_domain_filter a request carries
TimeStep == 30         \* seconds by which the clock of the rate-limiter spec advances
MaxTime == 60          \* last clock value of the rate-limiter spec
OtherClientChecks == 2 \* requests the second client sends in the rate-limiter spec

-----------------------------------------------------------------------------
(* Settings, src/app/config.py:76-84 *)

RATE_LIMIT_REQUESTS == 20
RATE_LIMIT_WINDOW_SECONDS == 60
MAX_RETRIES == 3
REQUEST_TIMEOUT_SECONDS == 2490
RETRY_BACKOFF_FACTOR == 2

-----------------------------------------------------------------------------
(* Python str operations on character sequences *)

NL == "\n"
Whitespace == {" ", "\n", "\t"}

IsSpace(c) == c \in Whitespace

RECURSIVE LStrip(_)
LStrip(s) ==
    IF s # <<>> /\ IsSpace(Head(s)) THEN LStrip(Tail(s)) ELSE s

RECURSIVE RStrip(_)
RStrip(s) ==
    IF s # <<>> /\ IsSpace(s[Len(s)]) THEN RStrip(SubSeq(s, 1, Len(s) - 1)) ELSE s

\* str.strip()
Strip(s) == RStrip(LStrip(s))

MatchAt(s, p, i) ==
    /\ i + Len(p) - 1 <= Len(s)
    /\ \A k \in 1..Len(p) : s[i + k - 1] = p[k]

\* str.startswith(p)
StartsWith(s, p) == MatchAt(s, p, 1)

RECURSIVE SplitAcc(_, _, _, _)
SplitAcc(s, sep, i, cur) ==
    IF i > Len(s) THEN <<cur>>
    ELSE IF MatchAt(s, sep, i)
         THEN <<cur>> \o SplitAcc(s, sep, i + Len(sep), <<>>)
         ELSE SplitAcc(s, sep, i + 1, Append(cur, s[i]))

\* str.split(sep): the pieces between the non-overlapping occurrences of sep,
\* found from the left
Split(s, sep) == SplitAcc(s, sep, 1, <<>>)

RECURSIVE Join(_, _)
\* sep.join(parts)
Join(sep, parts) ==
    IF parts = <<>> THEN <<>>
    ELSE IF Len(parts) = 1 THEN parts[1]
    ELSE parts[1] \o sep \o Join(sep, Tail(parts))

DigitChar == <<"0", "1", "2", "3", "4", "5", "6", "7", "8", "9">>

RECURSIVE Digits(_)
\* str(n) for an int n >= 0
Digits(n) ==
    IF n < 10 THEN <<DigitChar[n + 1]>>
    ELSE Digits(n \div 10) \o <<DigitChar[(n % 10) + 1]>>

-----------------------------------------------------------------------------
(* ScientificFormatter.format_citations, formatter.py:13-33 *)

REFERENCES_HEADING == <<"#","#"," ","R","e","f","e","r","ê","n","c","i","a","s">>

\* the entry numbered from 0, as enumerate(citations) without its start would
citation_entry_from_zero(i, url) ==
    <<"[">> \o Digits(i - 1) \o <<"]", " ">> \o url \o <<NL>>

\* formatter.py:29-31: one entry "[i] url\n", i counted from 1
citation_entry(i, url) == <<"[">> \o Digits(i) \o <<"]", " ">> \o url \o <<NL>>

\* the references block without the test for the empty list
format_citations_unguarded(citations) ==
    Join(<<NL>>, <<REFERENCES_HEADING \o <<NL>>>> \o
                 [i \in 1..Len(citations) |-> citation_entry(i, citations[i])])

format_citations(citations) ==
    IF citations = <<>> THEN <<>>
    ELSE LET references ==
                 <<REFERENCES_HEADING \o <<NL>>>> \o
                 [i \in 1..Len(citations) |-> citation_entry(i, citations[i])]
         IN  Join(<<NL>>, references)

-----------------------------------------------------------------------------
(* Letter case, for str.capitalize() and str.lower() *)

UPPER ==
    <<"A","B","C","D","E","F","G","H","I","J","K","L","M","N","O","P","Q","R","S","T",
      "U","V","W","X","Y","Z","Á","Â","Ã","À","Ç","É","Ê","Í","Ó","Ô","Õ","Ú">>
LOWER ==
    <<"a","b","c","d","e","f","g","h","i","j","k","l","m","n","o","p","q","r","s","t",
      "u","v","w","x","y","z","á","â","ã","à","ç","é","ê","í","ó","ô","õ","ú">>

LowerChar(c) ==
    IF \E i \in 1..Len(UPPER) : UPPER[i] = c
    THEN LOWER[CHOOSE i \in 1..Len(UPPER) : UPPER[i] = c] ELSE c

UpperChar(c) ==
    IF \E i \in 1..Len(LOWER) : LOWER[i] = c
    THEN UPPER[CHOOSE i \in 1..Len(LOWER) : LOWER[i] = c] ELSE c

\* str.lower()
Lower(s) == [i \in 1..Len(s) |-> LowerChar(s[i])]

\* str.capitalize(): first character upper case, the rest lower case
Capitalize(s) ==
    [i \in 1..Len(s) |-> IF i = 1 THEN UpperChar(s[i]) ELSE LowerChar(s[i])]

-----------------------------------------------------------------------------
(* Ordered dict str -> str (a Python dict keeps insertion order): a sequence *)
(* of <<key, value>> pairs with distinct keys                                *)

DictHas(d, k) == \E i \in 1..Len(d) : d[i][1] = k

DictGet(d, k) == d[CHOOSE i \in 1..Len(d) : d[i][1] = k][2]

\* d[k] = v: a key already there keeps its place
DictSet(d, k, v) ==
    IF DictHas(d, k)
    THEN [i \in 1..Len(d) |-> IF d[i][1] = k THEN <<k, v>> ELSE d[i]]
    ELSE Append(d, <<k, v>>)

DictKeys(d) == [i \in 1..Len(d) |-> d[i][1]]

-----------------------------------------------------------------------------
(* ScientificFormatter.extract_sections, formatter.py:35-88 *)

INTRODUCAO == <<"I","n","t","r","o","d","u","ç","ã","o">>

RECURSIVE LeadingHashes(_)
LeadingHashes(line) ==
    IF line # <<>> /\ Head(line) = "#" THEN 1 + LeadingHashes(Tail(line)) ELSE 0

\* formatter.py:47 and 61: re.match(r'^(#{1,3})\s+(.*?)$', line) on one line
\* of content.split('\n'): one to three '#', then at least one whitespace
\* character.  Four or more '#' do not match: \s+ fails on the next '#'.
header_match(line) ==
    LET h == LeadingHashes(line)
    IN  h \in 1..3 /\ Len(line) > h /\ IsSpace(line[h + 1])

\* formatter.py:63 and 75: match.group(2).strip(); group 2 is what follows
\* the whitespace run
header_title(line) ==
    Strip(SubSeq(line, LeadingHashes(line) + 1, Len(line)))

\* formatter.py:71 and 81: '\n'.join(current_content).strip()
section_body(current_content) == Strip(Join(<<NL>>, current_content))

RECURSIVE all_headers(_)
\* formatter.py:59-63: the pre-pass over the lines
all_headers(lines) ==
    IF lines = <<>> THEN <<>>
    ELSE (IF header_match(Head(lines)) THEN <<header_title(Head(lines))>> ELSE <<>>)
         \o all_headers(Tail(lines))

RECURSIVE scan_lines(_, _, _, _)
\* formatter.py:66-81: the main loop and the flush of the last section
scan_lines(lines, sections, current_section, current_content) ==
    IF lines = <<>>
    THEN IF current_content # <<>>
         THEN DictSet(sections, current_section, section_body(current_content))
         ELSE sections
    ELSE IF header_match(Head(lines))
         THEN scan_lines(Tail(lines),
                         IF current_content # <<>>
                         THEN DictSet(sections, current_section,
                                      section_body(current_content))
                         ELSE sections,
                         header_title(Head(lines)), <<>>)
         ELSE scan_lines(Tail(lines), sections, current_section,
                         Append(current_content, Head(lines)))

RECURSIVE add_empty_headers(_, _)
\* formatter.py:84-86
add_empty_headers(sections, headers) ==
    IF headers = <<>> THEN sections
    ELSE add_empty_headers(
             IF DictHas(sections, Head(headers)) THEN sections
             ELSE Append(sections, <<Head(headers), <<>>>>),
             Tail(headers))

extract_sections(content) ==
    LET lines == Split(content, <<NL>>)
    IN  IF Strip(content) = <<>>
        THEN <<<<INTRODUCAO, <<>>>>>>
        ELSE add_empty_headers(scan_lines(lines, <<>>, INTRODUCAO, <<>>),
                               all_headers(lines))

-----------------------------------------------------------------------------
(* ScientificFormatter.add_scientific_structure, formatter.py:90-154 *)

METADATA_ID ==
    <<"\n"," "," "," "," ","*","*","I","D"," ","d","o"," ","A","r","t","i","g","o","*",
      "*",":"," ">>
METADATA_DATE ==
    <<" "," ","\n"," "," "," "," ","*","*","D","a","t","a"," ","d","e"," ","P","u","b",
      "l","i","c","a","ç","ã","o","*","*",":"," ">>
METADATA_METHOD_TOTAL ==
    <<" "," ","\n"," "," "," "," ","*","*","M","é","t","o","d","o","*","*",":"," ","A",
      "n","á","l","i","s","e"," ","s","i","s","t","e","m","á","t","i","c","a"," ","b",
      "a","s","e","a","d","a"," ","e","m"," ","e","v","i","d","ê","n","c","i","a","s",
      " "," ","\n"," "," "," "," ","*","*","T","o","t","a","l"," ","d","e"," ","F","o",
      "n","t","e","s"," ","C","o","n","s","u","l","t","a","d","a","s","*","*",":"," ">>
METADATA_END == <<"\n"," "," "," "," ">>
RESUMO_HEADING == <<"#","#"," ","R","e","s","u","m","o","\n","\n">>
INTRODUCAO_HEADING == <<"#","#"," ","I","n","t","r","o","d","u","ç","ã","o","\n","\n">>
CONCLUSAO_BLOCK ==
    <<"#","#"," ","C","o","n","c","l","u","s","ã","o","\n","\n","E","s","t","a"," ","a",
      "n","á","l","i","s","e"," ","d","e","m","o","n","s","t","r","a"," ","a"," ","c",
      "o","m","p","l","e","x","i","d","a","d","e"," ","e"," ","i","m","p","o","r","t",
      "â","n","c","i","a"," ","d","o"," ","t","e","m","a"," ","a","b","o","r","d","a",
      "d","o",","," ","f","o","r","n","e","c","e","n","d","o"," ","u","m","a"," ","b",
      "a","s","e"," ","s","ó","l","i","d","a"," ","p","a","r","a"," ","f","u","t","u",
      "r","a","s"," ","i","n","v","e","s","t","i","g","a","ç","õ","e","s"," ","c","i",
      "e","n","t","í","f","i","c","a","s",".","\n","\n">>
CONCLUS == <<"c","o","n","c","l","u","s">>
PARA == <<NL, NL>>

\* formatter.py:104
article_title(query) == <<"#", " ">> \o Capitalize(Strip(query))

\* formatter.py:110-115; n is len(citations)
article_metadata(article_id, current_date, n) ==
    METADATA_ID \o article_id \o METADATA_DATE \o current_date \o
    METADATA_METHOD_TOTAL \o Digits(n) \o METADATA_END

\* the search for headings of level 2 and 3 only
has_sections_below_title(content) ==
    \E i \in 1..Len(content) :
        /\ i = 1 \/ content[i - 1] = NL
        /\ \E k \in 2..3 :
              /\ i + k <= Len(content)
              /\ \A j \in i..(i + k - 1) : content[j] = "#"
              /\ IsSpace(content[i + k])

\* formatter.py:118: re.search(r'^#{1,3}\s+', content, re.MULTILINE): at the
\* start of the content or right after a newline, one to three '#' and then
\* a whitespace character, which here may be the newline itself
has_sections(content) ==
    \E i \in 1..Len(content) :
        /\ i = 1 \/ content[i - 1] = NL
        /\ \E k \in 1..3 :
              /\ i + k <= Len(content)
              /\ \A j \in i..(i + k - 1) : content[j] = "#"
              /\ IsSpace(content[i + k])

RECURSIVE nonempty_parts(_)
nonempty_parts(parts) ==
    IF parts = <<>> THEN <<>>
    ELSE (IF Head(parts) # <<>> THEN <<Head(parts)>> ELSE <<>>)
         \o nonempty_parts(Tail(parts))

\* formatter.py:136
main_content(content) == Join(PARA, nonempty_parts(Tail(Split(content, PARA))))

\* formatter.py:130
first_paragraph(content) == Split(content, PARA)[1]

\* formatter.py:140
has_conclusion(sections) ==
    \E i \in 1..Len(sections) : StartsWith(Lower(sections[i][1]), CONCLUS)

\* citations is a sequence of strings; article_id is str(uuid.uuid4())[:8] and
\* current_date is datetime.now().strftime("%d/%m/%Y"), both read by the
\* function from its environment
add_scientific_structure(content, query, citations, article_id, current_date) ==
    LET title    == article_title(query)
        metadata == article_metadata(article_id, current_date, Len(citations))
        head     == title \o PARA \o metadata \o PARA
        sections == extract_sections(content)
        structured_content ==
            IF ~has_sections(content)
            THEN head \o RESUMO_HEADING
                 \o (IF DictHas(sections, INTRODUCAO)
                     THEN DictGet(sections, INTRODUCAO)
                     ELSE first_paragraph(content)) \o PARA
                 \o INTRODUCAO_HEADING
                 \o main_content(content) \o PARA
                 \o (IF ~has_conclusion(sections) THEN CONCLUSAO_BLOCK ELSE <<>>)
            ELSE head \o content \o PARA
    IN  structured_content \o format_citations(citations)

-----------------------------------------------------------------------------
(* Python values of unknown shape: <<tag, payload>>.  A dict's payload is *)
(* the sequence of its <<key, value>> items; a str's payload is its text. *)

PyNone      == <<"none">>
PyBool(b)   == <<"bool", b>>
PyInt(n)    == <<"int", n>>
PyStr(s)    == <<"str", s>>
PyList(l)   == <<"list", l>>
PyDict(d)   == <<"dict", d>>
Tag(x)      == x[1]
Payload(x)  == x[2]

\* The outcome of evaluating an expression: a value, or a raised exception
Ok(v)       == <<"ok", v>>
Raise(e)    == <<"raise", e>>
IsOk(r)     == r[1] = "ok"
Val(r)      == r[2]
Exc(r)      == r[2]

\* bool(x)
Truthy(x) ==
    CASE Tag(x) = "none" -> FALSE
      [] Tag(x) = "bool" -> Payload(x)
      [] Tag(x) = "int"  -> Payload(x) # 0
      [] OTHER           -> Len(Payload(x)) > 0

\* key in x.  The lists and strings of this model never hold the key as an
\* element or a substring, so for them the answer is False.
py_contains(x, key) ==
    CASE Tag(x) = "dict"            -> Ok(DictHas(Payload(x), key))
      [] Tag(x) \in {"list", "str"} -> Ok(FALSE)
      [] OTHER                      -> Raise("TypeError")

\* x.get(key, default): only a dict has the method
py_get(x, key, default) ==
    IF Tag(x) = "dict"
    THEN Ok(IF DictHas(Payload(x), key) THEN DictGet(Payload(x), key) ELSE default)
    ELSE Raise("AttributeError")

\* x[0].  The dicts of this model have no key 0.
py_first(x) ==
    CASE Tag(x) = "list" ->
             IF Len(Payload(x)) > 0 THEN Ok(Payload(x)[1]) ELSE Raise("IndexError")
      [] Tag(x) = "str"  ->
             IF Len(Payload(x)) > 0 THEN Ok(PyStr(<<Payload(x)[1]>>))
             ELSE Raise("IndexError")
      [] Tag(x) = "dict" -> Raise("KeyError")
      [] OTHER           -> Raise("TypeError")

\* len(x)
py_len(x) ==
    IF Tag(x) \in {"list", "str", "dict"} THEN Ok(Len(Payload(x)))
    ELSE Raise("TypeError")

EmptyDict == PyDict(<<>>)
EmptyList == PyList(<<>>)
EmptyStr  == PyStr(<<>>)

-----------------------------------------------------------------------------
(* ScientificFormatter.format_response, formatter.py:156-253 *)

CHOICES_ERROR ==
    <<"R","e","s","p","o","s","t","a"," ","d","a"," ","A","P","I"," ","n","ã","o"," ",
      "c","o","n","t","é","m"," ","c","a","m","p","o"," ","'","c","h","o","i","c","e",
      "s","'"," ","v","á","l","i","d","o">>

\* str(e): the text of the ValueError of formatter.py:171; for an exception
\* raised by the interpreter, the name of its type stands for its text
error_text(e) == IF e = "ValueError" THEN CHOICES_ERROR ELSE <<e>>

IsDigit(c) == \E i \in 1..10 : DigitChar[i] = c

RECURSIVE RunEnd(_, _, _)
\* the index after the longest run, from i on, of characters that are digits
\* (kind "d"), whitespace (kind "s") or not whitespace (kind "n")
RunEnd(s, i, kind) ==
    IF i <= Len(s) /\ (CASE kind = "d" -> IsDigit(s[i])
                         [] kind = "s" -> IsSpace(s[i])
                         [] OTHER      -> ~IsSpace(s[i]))
    THEN RunEnd(s, i + 1, kind) ELSE i

\* formatter.py:199: r'\[(\d+)\]\s+(http[s]?://[^\s]+)' tried at index i:
\* <<start of the URL, index after the match>>, or <<0, 0>> when it fails
citation_match(s, i) ==
    LET d == RunEnd(s, i + 1, "d")
        w == RunEnd(s, d + 1, "s")
        h == IF MatchAt(s, <<"h","t","t","p","s",":","/","/">>, w) THEN w + 8
             ELSE IF MatchAt(s, <<"h","t","t","p",":","/","/">>, w) THEN w + 7
             ELSE 0
        e == RunEnd(s, h, "n")
    IN  IF /\ i <= Len(s) /\ s[i] = "["
           /\ d > i + 1
           /\ d <= Len(s) /\ s[d] = "]"
           /\ w > d + 1
           /\ h > 0
           /\ e > h
        THEN <<w, e>> ELSE <<0, 0>>

RECURSIVE citation_findall(_, _)
\* formatter.py:200-202: re.findall, the URLs of the matches from the left
citation_findall(s, i) ==
    IF i > Len(s) THEN <<>>
    ELSE LET m == citation_match(s, i)
         IN  IF m[1] > 0
             THEN <<PyStr(SubSeq(s, m[1], m[2] - 1))>> \o citation_findall(s, m[2])
             ELSE citation_findall(s, i + 1)

\* formatter.py:174 and 237: choices[0].get("message", {}).get("content", "")
extract_content(response_data) ==
    LET choices == py_get(response_data, "choices", PyList(<<EmptyDict>>))
        first   == IF IsOk(choices) THEN py_first(Val(choices)) ELSE choices
        message == IF IsOk(first) THEN py_get(Val(first), "message", EmptyDict)
                   ELSE first
    IN  IF IsOk(message) THEN py_get(Val(message), "content", EmptyStr) ELSE message

\* the test of the key alone, without the test of its value
has_choices_key_only(response_data) == py_contains(response_data, "choices")

\* formatter.py:170 and 236: "choices" in response_data and
\* response_data.get("choices")
has_choices(response_data) ==
    LET c == py_contains(response_data, "choices")
        g == py_get(response_data, "choices", PyNone)
    IN  IF ~IsOk(c) THEN c
        ELSE IF ~Val(c) THEN Ok(FALSE)
        ELSE IF ~IsOk(g) THEN g
        ELSE Ok(Truthy(Val(g)))

\* formatter.py:182-205: where the citations are looked for.  The response is
\* a dict here and the first choice too, or line 174 had raised.  Each branch
\* that finds the key prints len(citations).
find_citations(response_data, content) ==
    LET rd       == Payload(response_data)
        message  == IF DictHas(rd, "message") THEN DictGet(rd, "message") ELSE EmptyDict
        in_msg   == py_contains(message, "citations")
        choice   == Payload(DictGet(rd, "choices"))[1]
        checked(c) == IF IsOk(py_len(c)) THEN Ok(c) ELSE py_len(c)
    IN  IF DictHas(rd, "citations")
        THEN checked(DictGet(rd, "citations"))
        ELSE IF DictHas(rd, "message") /\ ~IsOk(in_msg) THEN in_msg
        ELSE IF DictHas(rd, "message") /\ Val(in_msg)
        THEN checked(DictGet(Payload(message), "citations"))
        ELSE IF DictHas(Payload(choice), "citations")
        THEN checked(DictGet(Payload(choice), "citations"))
        ELSE IF Tag(content) = "str"
        THEN Ok(PyList(citation_findall(Payload(content), 1)))
        ELSE Ok(EmptyList)

\* the citation list as add_scientific_structure and format_citations read
\* it; the lists of this model hold strings only
citation_urls(citations) ==
    [i \in 1..Len(Payload(citations)) |-> Payload(Payload(citations)[i])]

\* formatter.py:221-225 and 246-252
response_metadata(response_data, env, error) ==
    <<<<"model", Val(py_get(response_data, "model", EmptyStr))>>,
      <<"created", Val(py_get(response_data, "created", EmptyStr))>>,
      <<"formatting_timestamp", PyStr(env.timestamp)>>>>
    \o (IF error = <<>> THEN <<>>
        ELSE <<<<"error", PyStr(error[1])>>, <<"formatting_failed", PyBool(TRUE)>>>>)

\* formatter.py:168-228, the try block: the document, or the exception that
\* leaves it
format_try(response_data, query, env) ==
    LET present   == has_choices(response_data)
        content   == extract_content(response_data)
        citations == find_citations(response_data, Val(content))
    IN  IF ~IsOk(present) THEN present
        ELSE IF ~Val(present) THEN Raise("ValueError")
        ELSE IF ~IsOk(content) THEN content
        ELSE IF ~IsOk(citations) THEN citations
        ELSE IF Tag(Val(content)) # "str" THEN Raise("TypeError")
        ELSE Ok(PyDict(<<
            <<"research_id",
              Val(py_get(response_data, "research_id", PyStr(env.research_uuid)))>>,
            <<"query", PyStr(query)>>,
            <<"content",
              PyStr(add_scientific_structure(
                        Payload(Val(content)), query, citation_urls(Val(citations)),
                        SubSeq(env.article_uuid, 1, 8), env.date))>>,
            <<"raw_content", Val(content)>>,
            <<"citations", Val(citations)>>,
            <<"usage", Val(py_get(response_data, "usage", EmptyDict))>>,
            <<"metadata", PyDict(response_metadata(response_data, env, <<>>))>> >>))

\* formatter.py:230-253, the except block: the degraded document, or the
\* exception that leaves the handler
format_except(response_data, query, env, e) ==
    LET present == has_choices(response_data)
        content == IF Val(present) THEN extract_content(response_data)
                   ELSE Ok(EmptyStr)
        rid     == py_get(response_data, "research_id", PyStr(env.research_uuid))
    IN  IF ~IsOk(present) THEN present
        ELSE IF ~IsOk(content) THEN content
        ELSE IF ~IsOk(rid) THEN rid
        ELSE Ok(PyDict(<<
            <<"research_id", Val(rid)>>,
            <<"query", PyStr(query)>>,
            <<"content", Val(content)>>,
            <<"raw_content", Val(content)>>,
            <<"citations", Val(py_get(response_data, "citations", EmptyList))>>,
            <<"usage", Val(py_get(response_data, "usage", EmptyDict))>>,
            <<"metadata",
              PyDict(response_metadata(response_data, env, <<error_text(e)>>))>> >>))

\* env holds what the function reads from its environment: research_uuid and
\* article_uuid are str(uuid.uuid4()), date and timestamp come from
\* datetime.now()
format_response(response_data, query, env) ==
    LET tried == format_try(response_data, query, env)
    IN  IF IsOk(tried) THEN tried
        ELSE format_except(response_data, query, env, Exc(tried))

-----------------------------------------------------------------------------
(* Inputs of the formatter *)

URL_A == <<"h","t","t","p",":","/","/","a",".","o","r","g","/","x">>
URL_B == <<"h","t","t","p","s",":","/","/","b",".","i","o">>
Urls == {URL_A, URL_B}

RECURSIVE SeqsUpTo(_, _)
\* the sequences over S of length at most n
SeqsUpTo(S, n) ==
    IF n = 0 THEN {<<>>}
    ELSE LET shorter == SeqsUpTo(S, n - 1)
         IN  shorter \cup {Append(q, x) : q \in shorter, x \in S}

CitationLists == SeqsUpTo(Urls, MaxCitations)

TEXT_PLAIN   == <<"S","u","n"," ","g","r","o","w","s",".">>
TEXT_HEADED  == <<"#"," ","S","u","n","\n","\n","I","t"," ","g","r","o","w","s",".">>
TEXT_INLINE  ==
    <<"S","e","e"," ","[","1","]"," ","h","t","t","p",":","/","/","a",".","o","r","g",
      "/","x">>
Contents == {<<>>, TEXT_PLAIN, TEXT_HEADED, TEXT_INLINE}

QUERY_SOLAR == <<" ","s","o","l","a","r"," ","E","n","e","r","g","y">>
Queries == {QUERY_SOLAR, <<"a","i">>}

UUID_1 ==
    <<"3","f","2","b","8","c","1","e","-","9","d","4","a","-","4","c","6","b","-","8",
      "e","2","f","-","1","a","2","b","3","c","4","d","5","e","6","f">>
UUID_2 ==
    <<"7","c","9","e","6","6","7","9","-","7","4","2","5","-","4","0","d","e","-","9",
      "4","4","b","-","e","0","7","f","c","1","f","9","0","a","e","7">>
Uuids == {UUID_1, UUID_2}

DATE_1 == <<"0","2","/","1","1","/","2","0","2","6">>
TIMESTAMP_1 ==
    <<"2","0","2","6","-","1","1","-","0","2","T","1","5",":","3","9",":","0","0",".",
      "0","0","0","0","0","1">>

\* what one call reads from uuid.uuid4() and datetime.now()
Envs ==
    {[research_uuid |-> u, article_uuid |-> a, date |-> DATE_1,
      timestamp |-> TIMESTAMP_1] : u \in Uuids, a \in {UUID_2}}

DATE_2 == <<"0","3","/","1","1","/","2","0","2","6">>
TIMESTAMP_2 ==
    <<"2","0","2","6","-","1","1","-","0","3","T","0","0",":","0","0",":","0","7",".",
      "0","0","0","0","4","2">>

UUID_3 ==
    <<"0","b","5","d","2","a","9","4","-","6","1","c","3","-","4","f","8","7","-","a",
      "d","1","0","-","5","e","9","c","7","7","b","2","3","8","d","1">>

\* what a later call reads: uuid4 draws an identifier it has not given yet and
\* the clock has moved, within the day or past its end
LaterEnvs ==
    {[research_uuid |-> UUID_3, article_uuid |-> UUID_3, date |-> d,
      timestamp |-> TIMESTAMP_2] : d \in {DATE_1, DATE_2}}

\* a key left out of a dict
Absent == <<"absent">>

\* the dict of the items whose value is not Absent
MakeDict(items) == PyDict(SelectSeq(items, LAMBDA it : it[2] # Absent))

PyUrls(l) == PyList([i \in 1..Len(l) |-> PyStr(l[i])])

RESEARCH_ID == <<"t","e","s","t","-","i","d">>
USAGE == PyDict(<<<<"total_tokens", PyInt(149)>>>>)

\* the message of a choice: left out, null, not a mapping, without content,
\* with null content, with a text, with a text and citations of its own
Messages ==
    {Absent, PyNone, PyStr(TEXT_PLAIN), EmptyDict,
     PyDict(<<<<"content", PyNone>>>>)}
    \cup {PyDict(<<<<"content", PyStr(c)>>>>) : c \in Contents}

ChoiceCitations == {Absent, PyUrls(<<URL_B>>)}

Choices ==
    {Absent, PyNone, EmptyList, PyList(<<PyStr(TEXT_PLAIN)>>)}
    \cup {PyList(<<MakeDict(<<<<"message", m>>, <<"citations", c>>>>)>>) :
              m \in Messages, c \in ChoiceCitations}

TopCitations ==
    {Absent, PyNone, EmptyList, PyUrls(<<URL_A>>), PyUrls(<<URL_A, URL_A>>),
     PyUrls(<<URL_B, URL_A>>)}

TopMessages == {Absent, PyDict(<<<<"citations", PyUrls(<<URL_B>>)>>>>)}

\* provider responses that are mappings
MappingResponses ==
    {MakeDict(<<<<"research_id", r>>, <<"citations", c>>, <<"message", m>>,
                <<"usage", u>>, <<"choices", ch>>>>) :
         r \in {Absent, PyStr(RESEARCH_ID)}, c \in TopCitations, m \in TopMessages,
         u \in {Absent, USAGE}, ch \in Choices}

\* and values that are not
OtherResponses == {PyNone, EmptyList, PyStr(TEXT_PLAIN)}

ResponseDatas == MappingResponses \cup OtherResponses

-----------------------------------------------------------------------------
(* Calls of the formatter's functions *)

NoValue == <<>>

\* the calls of the formatter's functions, each with its arguments
FormatCitationsCalls == {[citations |-> c] : c \in CitationLists}

FormatResponseCalls ==
    {[response_data |-> rd, query |-> q, env |-> env] :
         rd \in ResponseDatas, q \in Queries, env \in Envs}

CallFormatCitations ==
    /\ fn = ""
    /\ arg \in FormatCitationsCalls
    /\ fn' = "format_citations"
    /\ ret' = format_citations(arg.citations)
    /\ UNCHANGED <<arg, ret_later, PYTEST_RUNNING, rateVars, pipeVars>>

\* lines that the texts are made of: a heading of level 1, a body line, a
\* blank line, a lone '#', an indented '## Conclusão', a references heading
LINE_A == <<"#"," ","A">>
LINE_BODY == <<"x">>
LINE_HASH == <<"#">>
LINE_INDENTED == <<" ">> \o SubSeq(CONCLUSAO_BLOCK, 1, 12)
TextLines == {LINE_A, LINE_BODY, <<>>, LINE_HASH, LINE_INDENTED, REFERENCES_HEADING}

\* the texts of at most MaxLines lines, and the empty text
Texts == {Join(<<NL>>, ls) : ls \in SeqsUpTo(TextLines, MaxLines)}

\* texts with a heading that bears the synthetic title
LINE_INTRO == <<"#"," ">> \o INTRODUCAO
IntroTexts ==
    {Join(<<NL>>, ls) : ls \in SeqsUpTo({LINE_BODY, <<>>, LINE_HASH, LINE_INTRO}, MaxLines)}

ExtractSectionsCalls == {[content |-> t] : t \in Texts \cup IntroTexts}

StructureCalls ==
    {[content |-> t, query |-> QUERY_SOLAR, citations |-> c,
      article_id |-> SubSeq(UUID_1, 1, 8), current_date |-> DATE_1] :
         t \in Texts, c \in {<<>>, <<URL_A, URL_B>>}}

CallExtractSections ==
    /\ fn = ""
    /\ arg \in ExtractSectionsCalls
    /\ fn' = "extract_sections"
    /\ ret' = extract_sections(arg.content)
    /\ UNCHANGED <<arg, ret_later, PYTEST_RUNNING, rateVars, pipeVars>>

CallAddScientificStructure ==
    /\ fn = ""
    /\ arg \in StructureCalls
    /\ fn' = "add_scientific_structure"
    /\ ret' = add_scientific_structure(arg.content, arg.query, arg.citations,
                                       arg.article_id, arg.current_date)
    /\ UNCHANGED <<arg, ret_later, PYTEST_RUNNING, rateVars, pipeVars>>

CallFormatResponse ==
    /\ fn = ""
    /\ arg \in FormatResponseCalls
    /\ fn' = "format_response"
    /\ ret' = format_response(arg.response_data, arg.query, arg.env)
    /\ UNCHANGED <<arg, ret_later, PYTEST_RUNNING, rateVars, pipeVars>>

\* the same function called once more with the same arguments; what it reads
\* from uuid.uuid4() and datetime.now() is read afresh
CallAgain ==
    /\ fn \in {"format_response", "add_scientific_structure"}
    /\ ret_later = NoValue
    /\ \E env \in LaterEnvs :
           ret_later' = IF fn = "format_response"
                        THEN format_response(arg.response_data, arg.query, env)
                        ELSE add_scientific_structure(arg.content, arg.query,
                                 arg.citations, SubSeq(env.article_uuid, 1, 8), env.date)
    /\ UNCHANGED <<fn, arg, ret, PYTEST_RUNNING, rateVars, pipeVars>>

-----------------------------------------------------------------------------
(* rate_limit_check, research.py:25-65 *)

CLIENT_1 == "10.0.0.1"
CLIENT_2 == "10.0.0.2"
Clients == {CLIENT_1, CLIENT_2}
\* request.client is None
NoClient == "None"

EmptyTracker == [ip \in {} |-> <<>>]

\* research.py:48: the timestamps that stay
is_recent(timestamp, cutoff_time) == timestamp > cutoff_time

\* the comparison that lets one request more through
limit_exceeded(n) == n > RATE_LIMIT_REQUESTS

\* research.py:54
limit_reached(n) == n >= RATE_LIMIT_REQUESTS

\* a cleaning that deletes the whole list of a client with an old timestamp
clean_tracker_dropping(tracker, current_time) ==
    LET cutoff_time == current_time - RATE_LIMIT_WINDOW_SECONDS
    IN  [ip \in {k \in DOMAIN tracker :
                    \A i \in 1..Len(tracker[k]) : is_recent(tracker[k][i], cutoff_time)}
            |-> tracker[ip]]

\* a ledger that is never cleaned
clean_tracker_never(tracker, current_time) == tracker

\* research.py:46-50: every client's list is filtered, an empty one deleted
clean_tracker(tracker, current_time) ==
    LET cutoff_time == current_time - RATE_LIMIT_WINDOW_SECONDS
        kept(ip) == SelectSeq(tracker[ip], LAMBDA ts : is_recent(ts, cutoff_time))
    IN  [ip \in {k \in DOMAIN tracker : kept(k) # <<>>} |-> kept(ip)]

LIMIT_DETAIL ==
    PyStr(<<"Limite de taxa excedido. Tente novamente em ">>
          \o Digits(RATE_LIMIT_WINDOW_SECONDS) \o <<" segundos.">>)

\* The call's effect on request_tracker and what it raises: status_code 0
\* stands for the return of True.
rate_limit_check(tracker, client_ip, current_time, bypass) ==
    IF client_ip = NoClient \/ bypass
    THEN [tracker |-> tracker, status_code |-> 0, detail |-> PyNone]
    ELSE LET cleaned == clean_tracker(tracker, current_time)
         IN  IF client_ip \in DOMAIN cleaned /\ limit_reached(Len(cleaned[client_ip]))
             THEN [tracker |-> cleaned, status_code |-> 429, detail |-> LIMIT_DETAIL]
             ELSE [tracker |->
                       [ip \in DOMAIN cleaned \cup {client_ip} |->
                           IF ip = client_ip
                           THEN (IF ip \in DOMAIN cleaned THEN cleaned[ip] ELSE <<>>)
                                \o <<current_time>>
                           ELSE cleaned[ip]],
                   status_code |-> 0, detail |-> PyNone]

\* how many recorded timestamps of a client lie in the window (t - W, t]
InWindow(history, t) ==
    Cardinality({i \in 1..Len(history) :
                     history[i] > t - RATE_LIMIT_WINDOW_SECONDS /\ history[i] <= t})

\* One call of rate_limit_check by a client, as the endpoint's dependency
RateLimitCheck ==
    \E c \in Clients :
        LET r == rate_limit_check(request_tracker, c, now, PYTEST_RUNNING)
            recorded == r.status_code = 0 /\ ~PYTEST_RUNNING
        IN  /\ c = CLIENT_2 => Len(admitted[c]) < OtherClientChecks
            /\ request_tracker' = r.tracker
            /\ admitted' = IF recorded
                           THEN [admitted EXCEPT ![c] = Append(@, now)]
                           ELSE admitted
            /\ last_check' = [client |-> c, time |-> now,
                              status_code |-> r.status_code,
                              before |-> InWindow(admitted[c], now),
                              after_refusal |-> /\ last_check.client = c
                                                /\ last_check.status_code = 429]
            /\ UNCHANGED <<now, PYTEST_RUNNING, fmtVars, pipeVars>>

\* The clock advances
Tick ==
    /\ now + TimeStep <= MaxTime
    /\ now' = now + TimeStep
    /\ UNCHANGED <<request_tracker, admitted, last_check, PYTEST_RUNNING,
                   fmtVars, pipeVars>>

-----------------------------------------------------------------------------
(* verify_api_key, auth.py:9-49.  Texts that the code only passes on are   *)
(* sequences of tokens rather than of characters.                          *)

SCIFLOW_API_KEY == PyStr(<<"sciflow-key">>)

\* the X-API-Key header as APIKeyHeader(auto_error=False) hands it over:
\* None when the header is missing
ApiKeys == {PyNone, EmptyStr, PyStr(<<"wrong-key">>), SCIFLOW_API_KEY}

ErrorDetail(message, code, details) ==
    PyDict(<<<<"message", message>>, <<"code", PyStr(<<code>>)>>,
             <<"details", details>>>>)

\* the check of the key's presence without the comparison
verify_api_key_presence(api_key, bypass) ==
    IF bypass \/ Truthy(api_key) THEN [status_code |-> 0, detail |-> PyNone]
    ELSE [status_code |-> 401,
          detail |-> ErrorDetail(PyStr(<<"API Key não fornecida no header X-API-Key">>),
                                 "missing_api_key", PyNone)]

\* status_code 0 stands for the return of True
verify_api_key(api_key, bypass) ==
    IF bypass THEN [status_code |-> 0, detail |-> PyNone]
    ELSE IF ~Truthy(api_key)
    THEN [status_code |-> 401,
          detail |-> ErrorDetail(PyStr(<<"API Key não fornecida no header X-API-Key">>),
                                 "missing_api_key", PyNone)]
    ELSE IF api_key # SCIFLOW_API_KEY
    THEN [status_code |-> 403,
          detail |-> ErrorDetail(PyStr(<<"API Key inválida">>), "invalid_api_key",
                                 PyNone)]
    ELSE [status_code |-> 0, detail |-> PyNone]

-----------------------------------------------------------------------------
(* DeepResearchRequest and PerplexityRequestOptions, models/research.py:28-60. *)
(* A body is a record of its fields, each a Python value or Absent when the    *)
(* body leaves it out.  Floats are counted in hundredths: 1.99 is 199.         *)

RecencyFilter == {"day", "week", "month", "year", "none"}

\* Field(default, ge=lo, le=hi)
out_of_range(x, lo, hi) == x # Absent /\ ~(lo <= Payload(x) /\ Payload(x) <= hi)

\* models/research.py:50, Field(..., min_length=5, max_length=500)
query_invalid(query) ==
    query = Absent \/ Len(Payload(query)) < 5 \/ Len(Payload(query)) > 500

\* the upper end let in, as le=2.0 would
temperature_invalid_above(x) == x # Absent /\ ~(0 <= Payload(x) /\ Payload(x) <= 200)

\* models/research.py:30, Field(default=0.1, ge=0.0, lt=2.0)
temperature_invalid(x) == x # Absent /\ ~(0 <= Payload(x) /\ Payload(x) < 200)

\* models/research.py:36, Optional[RecencyFilter]
recency_invalid(x) == x # Absent /\ Payload(x) \notin {<<r>> : r \in RecencyFilter}

\* the fields of the body that fail their constraints; pydantic reports all
\* of them
validation_errors(body) ==
    {f \in {"query"} : query_invalid(body.query)}
    \cup {f \in {"temperature"} : temperature_invalid(body.temperature)}
    \cup {f \in {"top_p"} : out_of_range(body.top_p, 0, 100)}
    \cup {f \in {"frequency_penalty"} : out_of_range(body.frequency_penalty, 0, 200)}
    \cup {f \in {"presence_penalty"} : out_of_range(body.presence_penalty, 0, 200)}
    \cup {f \in {"search_recency_filter"} : recency_invalid(body.search_recency_filter)}

\* a query text of n characters
QueryOfLen(n) == [i \in 1..n |-> "q"]

BaseBody ==
    [query |-> PyStr(QUERY_SOLAR), temperature |-> Absent, top_p |-> Absent,
     frequency_penalty |-> Absent, presence_penalty |-> Absent,
     search_recency_filter |-> Absent, search_domain_filter |-> Absent]

\* a search_domain_filter of n domains
DomainsOfLen(n) == PyList([i \in 1..n |-> PyStr(<<"d">> \o Digits(i) \o <<".","o","r","g">>)])

\* the base body with one field changed, and the body of
\* test_deep_research_invalid_options
Bodies ==
    {BaseBody}
    \cup {[BaseBody EXCEPT !.query = q] :
              q \in {Absent} \cup {PyStr(QueryOfLen(n)) : n \in {4, 5, 500, 501}}}
    \cup {[BaseBody EXCEPT !.temperature = PyInt(t)] : t \in {-1, 0, 10, 199, 200}}
    \cup {[BaseBody EXCEPT !.top_p = PyInt(t)] : t \in {-1, 0, 100, 101}}
    \cup {[BaseBody EXCEPT !.frequency_penalty = PyInt(t)] : t \in {-1, 0, 200, 201}}
    \cup {[BaseBody EXCEPT !.presence_penalty = PyInt(t)] : t \in {-1, 0, 200, 201}}
    \cup {[BaseBody EXCEPT !.search_recency_filter = PyStr(<<t>>)] :
              t \in {"year", "none", "decade"}}
    \cup {[BaseBody EXCEPT !.temperature = PyInt(300), !.top_p = PyInt(150)]}
    \cup {[BaseBody EXCEPT !.search_domain_filter = DomainsOfLen(n)] :
              n \in {0, 1, MaxDomains - 1, MaxDomains}}

\* the 422 of a RequestValidationError: one entry per failing field
ValidationDetail(errors) ==
    LET RECURSIVE Entries(_)
        Entries(E) ==
            IF E = {} THEN <<>>
            ELSE LET f == CHOOSE x \in E : TRUE
                     loc == IF f = "query"
                            THEN <<PyStr(<<"body">>), PyStr(<<f>>)>>
                            ELSE <<PyStr(<<"body">>), PyStr(<<"options">>), PyStr(<<f>>)>>
                 IN  <<PyDict(<<<<"loc", PyList(loc)>>>>)>> \o Entries(E \ {f})
    IN  PyList(Entries(errors))

-----------------------------------------------------------------------------
(* PerplexityClient._prepare_payload, perplexity.py:48-104 *)

\* the default of DeepResearchRequest.system_prompt, models/research.py:51-59
SYSTEM_PROMPT == <<"Você é um assistente de pesquisa acadêmica ...">>

\* perplexity.py:59-66; the bodies of this model leave system_prompt out
prepare_messages(query) ==
    PyList(<<PyDict(<<<<"role", PyStr(<<"system">>)>>,
                      <<"content", PyStr(SYSTEM_PROMPT)>>>>),
             PyDict(<<<<"role", PyStr(<<"user">>)>>, <<"content", query>>>>)>>)

\* the payload of the POST; the options the body leaves out take the defaults
\* of PerplexityRequestOptions (models/research.py:30-39, in hundredths)
prepare_payload(body) ==
    LET option(x, default) == IF x = Absent THEN PyInt(default) ELSE x
        filter(x)          == IF x # Absent /\ Truthy(x) THEN x ELSE Absent
    IN  MakeDict(<<
            <<"model", PyStr(<<"sonar-deep-research">>)>>,
            <<"messages", prepare_messages(body.query)>>,
            <<"temperature", option(body.temperature, 10)>>,
            <<"top_p", option(body.top_p, 95)>>,
            <<"frequency_penalty", option(body.frequency_penalty, 100)>>,
            <<"presence_penalty", option(body.presence_penalty, 0)>>,
            <<"max_tokens", PyInt(8000)>>,
            <<"stream", PyBool(FALSE)>>,
            <<"web_search_options",
              PyDict(<<<<"search_context_size", PyStr(<<"high">>)>>>>)>>,
            <<"search_domain_filter", filter(body.search_domain_filter)>>,
            <<"search_recency_filter", filter(body.search_recency_filter)>>>>)

-----------------------------------------------------------------------------
(* What the provider does with one POST *)

NotJson == <<"notjson">>

ProviderReply(status_code, json, text) ==
    [kind |-> "response", status_code |-> status_code, json |-> json,
     text |-> PyStr(<<text>>)]

\* httpx.RequestError (connection errors and httpx's timeouts) and
\* asyncio.TimeoutError
TransportFailures ==
    {[kind |-> k, status_code |-> 0, json |-> NotJson, text |-> EmptyStr] :
         k \in {"RequestError", "TimeoutError"}}

Choice(message) == PyList(<<PyDict(<<<<"message", message>>>>)>>)

SuccessBodies ==
    { MakeDict(<<<<"citations", PyUrls(<<URL_A>>)>>,
                 <<"choices", Choice(PyDict(<<<<"content", PyStr(TEXT_PLAIN)>>>>))>>>>),
      MakeDict(<<<<"research_id", PyStr(RESEARCH_ID)>>,
                 <<"choices", Choice(PyDict(<<<<"content", PyStr(TEXT_HEADED)>>>>))>>>>),
      MakeDict(<<<<"citations", PyUrls(<<URL_A>>)>>>>),
      MakeDict(<<<<"choices", Choice(PyNone)>>>>),
      MakeDict(<<<<"choices", Choice(PyDict(<<<<"content", PyNone>>>>))>>>>),
      EmptyList,
      NotJson }

ErrorBodies ==
    { PyDict(<<<<"error", PyDict(<<<<"message", PyStr(<<"Invalid API key">>)>>>>)>>>>),
      PyDict(<<<<"error", EmptyDict>>>>),
      PyDict(<<<<"error", PyStr(<<"bad">>)>>>>),
      PyDict(<<<<"detail", PyStr(<<"bad">>)>>>>),
      EmptyList,
      PyNone,
      NotJson }

ErrorStatusCodes == {400, 429, 503}

ProviderOutcomes ==
    {ProviderReply(200, b, "<body>") : b \in SuccessBodies}
    \cup {ProviderReply(c, b, "<error body>") : c \in ErrorStatusCodes, b \in ErrorBodies}
    \cup TransportFailures

-----------------------------------------------------------------------------
(* PerplexityClient.execute_research, perplexity.py:106-168 *)

PerplexityApiException(message, status_code, response_body) ==
    [type |-> "PerplexityApiException", message |-> message,
     status_code |-> status_code, response_body |-> response_body]

DEFAULT_ERROR == PyStr(<<"Erro na API Perplexity">>)

\* perplexity.py:146-162: the handler of httpx.HTTPStatusError.  Whatever goes
\* wrong while reading the error body leaves the default message and the raw
\* text as the body.
status_error(reply) ==
    LET parsed   == reply.json
        has_err  == py_contains(parsed, "error")
        err      == DictGet(Payload(parsed), "error")
        readable == /\ parsed # NotJson
                    /\ IsOk(has_err)
                    /\ Val(has_err) => Tag(err) = "dict"
        message  == IF readable /\ Val(has_err)
                    THEN Val(py_get(err, "message", DEFAULT_ERROR))
                    ELSE DEFAULT_ERROR
    IN  PerplexityApiException(
            PyStr(Payload(message) \o <<" (Status: ">> \o Digits(reply.status_code)
                  \o <<")">>),
            PyInt(reply.status_code),
            IF readable THEN parsed ELSE reply.text)

\* httpx.Response.raise_for_status passes the 2xx codes
is_success(status_code) == 200 <= status_code /\ status_code < 300

\* one attempt that lets the transport errors leave as they are
execute_research_unwrapped(outcome, research_uuid) ==
    IF outcome.kind # "response"
    THEN Raise([type |-> outcome.kind, message |-> PyStr(<<outcome.kind>>),
                status_code |-> PyNone, response_body |-> PyNone])
    ELSE IF ~is_success(outcome.status_code)
    THEN Raise(status_error(outcome))
    ELSE IF outcome.json = NotJson
    THEN Raise(PerplexityApiException(
                   PyStr(<<"Erro inesperado: ", "JSONDecodeError">>), PyNone, PyNone))
    ELSE IF Tag(outcome.json) # "dict"
    THEN Raise(PerplexityApiException(
                   PyStr(<<"Erro inesperado: ", "TypeError">>), PyNone, PyNone))
    ELSE Ok(PyDict(DictSet(Payload(outcome.json), "research_id",
                           PyStr(research_uuid))))

\* one attempt that leaves the research_id alone where the provider sent one
execute_research_keeping_id(outcome, research_uuid) ==
    IF outcome.kind # "response"
    THEN Raise(PerplexityApiException(
                   PyStr(<<"Erro de comunicação com a API: ", outcome.kind>>),
                   PyNone, PyNone))
    ELSE IF ~is_success(outcome.status_code)
    THEN Raise(status_error(outcome))
    ELSE IF outcome.json = NotJson
    THEN Raise(PerplexityApiException(
                   PyStr(<<"Erro inesperado: ", "JSONDecodeError">>), PyNone, PyNone))
    ELSE IF Tag(outcome.json) # "dict"
    THEN Raise(PerplexityApiException(
                   PyStr(<<"Erro inesperado: ", "TypeError">>), PyNone, PyNone))
    ELSE Ok(IF DictHas(Payload(outcome.json), "research_id") THEN outcome.json
            ELSE PyDict(DictSet(Payload(outcome.json), "research_id",
                                PyStr(research_uuid))))

\* perplexity.py:124-168: the decorated function, one attempt.  outcome is what
\* the POST of line 129 meets; research_uuid is str(uuid.uuid4()).
execute_research_once(outcome, research_uuid) ==
    IF outcome.kind # "response"
    THEN Raise(PerplexityApiException(
                   PyStr(<<"Erro de comunicação com a API: ", outcome.kind>>),
                   PyNone, PyNone))
    ELSE IF ~is_success(outcome.status_code)
    THEN Raise(status_error(outcome))
    ELSE IF outcome.json = NotJson
    THEN Raise(PerplexityApiException(
                   PyStr(<<"Erro inesperado: ", "JSONDecodeError">>), PyNone, PyNone))
    ELSE IF Tag(outcome.json) # "dict"
    THEN Raise(PerplexityApiException(
                   PyStr(<<"Erro inesperado: ", "TypeError">>), PyNone, PyNone))
    ELSE Ok(PyDict(DictSet(Payload(outcome.json), "research_id",
                           PyStr(research_uuid))))

\* one call of the function body: what the POST meets and what uuid4 gives
ExecuteResearchCalls ==
    {[outcome |-> o, research_uuid |-> u] : o \in ProviderOutcomes, u \in Uuids}

CallExecuteResearch ==
    /\ fn = ""
    /\ arg \in ExecuteResearchCalls
    /\ fn' = "execute_research"
    /\ ret' = execute_research_once(arg.outcome, arg.research_uuid)
    /\ UNCHANGED <<arg, ret_later, PYTEST_RUNNING, rateVars, pipeVars>>

\* perplexity.py:33 and 128: httpx.Timeout(settings.REQUEST_TIMEOUT_SECONDS)
\* sets the one number as the limit of each phase of a request (connecting,
\* waiting for the response) and a new client with this timeout serves each
\* attempt.  A phase takes no time or ends just within its limit.
PhaseTimes == {0, REQUEST_TIMEOUT_SECONDS - 1}

\* a predicate that retries whatever was raised
retry_if_any_exception(exception) == TRUE

\* perplexity.py:107: retry_if_exception_type((httpx.RequestError,
\* asyncio.TimeoutError)), asked about the exception that left the function
retry_if_exception_type(exception) ==
    exception.type \in {"RequestError", "TimeoutError"}

\* perplexity.py:108: stop_after_attempt(settings.MAX_RETRIES)
stop_after_attempt(attempt_number) == attempt_number >= MAX_RETRIES

RECURSIVE Pow2(_)
Pow2(n) == IF n = 0 THEN 1 ELSE 2 * Pow2(n - 1)

\* perplexity.py:109: wait_exponential(multiplier=settings.RETRY_BACKOFF_FACTOR),
\* the seconds slept after the given attempt
wait_exponential(attempt_number) == RETRY_BACKOFF_FACTOR * Pow2(attempt_number - 1)

-----------------------------------------------------------------------------
(* deep_research, research.py:80-147 *)

\* every provider failure answered 500 with the exception's text
provider_http_exception_generic(e) ==
    [status_code |-> 500,
     detail |-> ErrorDetail(e.message, "perplexity_api_error", e.response_body)]

\* research.py:128-147: the HTTPException raised for a PerplexityApiException
provider_http_exception(e) ==
    LET body    == e.response_body
        shaped  == /\ Truthy(body) /\ Tag(body) = "dict"
                   /\ DictHas(Payload(body), "error")
                   /\ Tag(DictGet(Payload(body), "error")) = "dict"
                   /\ DictHas(Payload(DictGet(Payload(body), "error")), "message")
        message == IF shaped
                   THEN DictGet(Payload(DictGet(Payload(body), "error")), "message")
                   ELSE e.message
    IN  [status_code |-> IF Truthy(e.status_code) THEN Payload(e.status_code) ELSE 500,
         detail |-> ErrorDetail(message, "perplexity_api_error", body)]

\* No exception handler is registered for the router's application: an
\* HTTPException is answered with its status and {"detail": detail}
http_exception_response(status_code, detail) ==
    [status_code |-> status_code, body |-> PyDict(<<<<"detail", detail>>>>)]

\* an exception that no handler takes
INTERNAL_SERVER_ERROR ==
    [status_code |-> 500, body |-> <<"plain", <<"Internal Server Error">>>>]

IsListOfStr(x) ==
    Tag(x) = "list" /\ \A i \in 1..Len(Payload(x)) : Tag(Payload(x)[i]) = "str"

\* research.py:82 and models/research.py DeepResearchResponse: the returned
\* document has to validate against the response model
response_model_valid(doc) ==
    LET d == Payload(doc)
    IN  /\ Tag(DictGet(d, "research_id")) = "str"
        /\ Tag(DictGet(d, "query")) = "str"
        /\ Tag(DictGet(d, "content")) = "str"
        /\ Tag(DictGet(d, "raw_content")) = "str"
        /\ IsListOfStr(DictGet(d, "citations"))
        /\ Tag(DictGet(d, "usage")) = "dict"
        /\ Tag(DictGet(d, "metadata")) = "dict"

\* research.py:113-147 once execute_research has returned or raised
deep_research(outcome, query, env) ==
    IF ~IsOk(outcome)
    THEN IF Exc(outcome).type = "PerplexityApiException"
         THEN LET h == provider_http_exception(Exc(outcome))
              IN  http_exception_response(h.status_code, h.detail)
         ELSE INTERNAL_SERVER_ERROR
    ELSE LET formatted_response == format_response(Val(outcome), Payload(query), env)
         IN  IF IsOk(formatted_response) /\ response_model_valid(Val(formatted_response))
             THEN [status_code |-> 200, body |-> Val(formatted_response)]
             ELSE INTERNAL_SERVER_ERROR

NoRequest == [client |-> NoClient, api_key |-> PyNone, body |-> BaseBody]
NoResponse == [status_code |-> 0, body |-> PyNone]
NoPayload == PyNone
NoResult == PyNone

PipelineClients == {CLIENT_1, NoClient}

\* A request whose key is checked first, and counted only if the key passes
ReceiveKeyFirst ==
    \E c \in PipelineClients, k \in ApiKeys, b \in Bodies :
        LET auth   == verify_api_key(k, PYTEST_RUNNING)
            limit  == IF auth.status_code # 0
                      THEN [tracker |-> request_tracker, status_code |-> 1, detail |-> PyNone]
                      ELSE rate_limit_check(request_tracker, c, now, PYTEST_RUNNING)
            errors == validation_errors(b)
            answer == IF auth.status_code # 0
                      THEN http_exception_response(auth.status_code, auth.detail)
                      ELSE IF limit.status_code # 0
                      THEN http_exception_response(limit.status_code, limit.detail)
                      ELSE IF errors # {}
                      THEN http_exception_response(422, ValidationDetail(errors))
                      ELSE NoResponse
        IN  /\ pc = "idle"
            /\ req' = [client |-> c, api_key |-> k, body |-> b]
            /\ request_tracker' = limit.tracker
            /\ admitted' = IF limit.status_code = 0 /\ ~PYTEST_RUNNING /\ c # NoClient
                           THEN [admitted EXCEPT ![c] = Append(@, now)]
                           ELSE admitted
            /\ response' = answer
            /\ pc' = IF answer = NoResponse THEN "waiting" ELSE "responded"
            /\ posts' = IF answer = NoResponse THEN 1 ELSE 0
            /\ payload' = IF answer = NoResponse THEN prepare_payload(b) ELSE NoPayload
            /\ delays' = <<>>
            /\ trace' = <<>>
            /\ result' = NoResult
            /\ elapsed' = 0
            /\ UNCHANGED <<now, last_check, PYTEST_RUNNING, fmtVars>>

\* A request arrives: FastAPI runs the dependencies in the order of the
\* signature (research.py:96-97), then reports the body's validation errors,
\* then calls deep_research, which gets to the first POST (perplexity.py:129).
Receive ==
    \E c \in PipelineClients, k \in ApiKeys, b \in Bodies :
        LET limit  == rate_limit_check(request_tracker, c, now, PYTEST_RUNNING)
            auth   == verify_api_key(k, PYTEST_RUNNING)
            errors == validation_errors(b)
            answer == IF limit.status_code # 0
                      THEN http_exception_response(limit.status_code, limit.detail)
                      ELSE IF auth.status_code # 0
                      THEN http_exception_response(auth.status_code, auth.detail)
                      ELSE IF errors # {}
                      THEN http_exception_response(422, ValidationDetail(errors))
                      ELSE NoResponse
        IN  /\ pc = "idle"
            /\ req' = [client |-> c, api_key |-> k, body |-> b]
            /\ request_tracker' = limit.tracker
            /\ admitted' = IF limit.status_code = 0 /\ ~PYTEST_RUNNING /\ c # NoClient
                           THEN [admitted EXCEPT ![c] = Append(@, now)]
                           ELSE admitted
            /\ response' = answer
            /\ pc' = IF answer = NoResponse THEN "waiting" ELSE "responded"
            /\ posts' = IF answer = NoResponse THEN 1 ELSE 0
            /\ payload' = IF answer = NoResponse THEN prepare_payload(b) ELSE NoPayload
            /\ delays' = <<>>
            /\ trace' = <<>>
            /\ result' = NoResult
            /\ elapsed' = 0
            /\ UNCHANGED <<now, last_check, PYTEST_RUNNING, fmtVars>>

\* The POST in flight ends.  tenacity (perplexity.py:106-110) looks at the
\* exception that left execute_research: it sleeps and calls again, gives up
\* with RetryError, or lets the exception pass; deep_research goes on with what
\* comes out.
UpstreamReply ==
    \E o \in ProviderOutcomes, research_uuid \in Uuids, connect \in PhaseTimes,
       read \in PhaseTimes :
      \* uuid4 does not give the formatter the identifier it gave the client
      \E env \in {e \in Envs : e.research_uuid # research_uuid} :
        LET outcome == execute_research_once(o, research_uuid)
            again   == ~IsOk(outcome) /\ retry_if_exception_type(Exc(outcome))
            final   == IF again /\ stop_after_attempt(posts)
                       THEN Raise([type |-> "RetryError"])
                       ELSE outcome
        IN  /\ pc = "waiting"
            /\ trace' = Append(trace, o)
            /\ elapsed' = elapsed + connect + read
                           + (IF again /\ ~stop_after_attempt(posts)
                              THEN wait_exponential(posts) ELSE 0)
            /\ IF again /\ ~stop_after_attempt(posts)
               THEN /\ delays' = Append(delays, wait_exponential(posts))
                    /\ posts' = posts + 1
                    /\ UNCHANGED <<pc, result, response>>
               ELSE /\ result' = final
                    /\ response' = deep_research(final, req.body.query, env)
                    /\ pc' = "responded"
                    /\ UNCHANGED <<posts, delays>>
            /\ UNCHANGED <<req, payload, PYTEST_RUNNING, rateVars, fmtVars>>

\* The response has left and the handler's frame is gone
Respond ==
    /\ pc = "responded"
    /\ pc' = "idle"
    /\ req' = NoRequest
    /\ response' = NoResponse
    /\ posts' = 0
    /\ payload' = NoPayload
    /\ result' = NoResult
    /\ elapsed' = 0
    /\ delays' = <<>>
    /\ trace' = <<>>
    /\ UNCHANGED <<PYTEST_RUNNING, rateVars, fmtVars>>

-----------------------------------------------------------------------------
(* Specifications *)

InitCommon ==
    /\ PYTEST_RUNNING \in BOOLEAN
    /\ fn = "" /\ ret = NoValue /\ ret_later = NoValue
    /\ now = 0
    /\ request_tracker = EmptyTracker
    /\ admitted = [c \in Clients |-> <<>>]
    /\ last_check = [client |-> NoClient, time |-> 0, status_code |-> 0, before |-> 0,
                     after_refusal |-> FALSE]
    /\ pc = "idle"
    /\ req = NoRequest
    /\ posts = 0
    /\ delays = <<>>
    /\ trace = <<>>
    /\ payload = NoPayload
    /\ result = NoResult
    /\ elapsed = 0
    /\ response = NoResponse

\* the request pipeline of POST /deep-research
Init == InitCommon /\ arg = NoValue

Next == Receive \/ UpstreamReply \/ Respond

Spec == Init /\ [][Next]_vars

\* calls of the formatter's functions
InitFmt ==
    /\ InitCommon
    /\ ~PYTEST_RUNNING
    /\ arg \in FormatCitationsCalls \cup FormatResponseCalls
               \cup ExtractSectionsCalls \cup StructureCalls \cup ExecuteResearchCalls

NextFmt ==
    \/ CallFormatCitations
    \/ CallFormatResponse
    \/ CallExtractSections
    \/ CallAddScientificStructure
    \/ CallAgain
    \/ CallExecuteResearch

SpecFmt == InitFmt /\ [][NextFmt]_vars

\* the rate limiter under a moving clock
InitRate == InitCommon /\ arg = NoValue

NextRate == RateLimitCheck \/ Tick

SpecRate == InitRate /\ [][NextRate]_vars

-----------------------------------------------------------------------------
(* Properties of the formatter, under SpecFmt *)

DOCUMENT_KEYS ==
    <<"research_id", "query", "content", "raw_content", "citations", "usage",
      "metadata">>

Field(doc, key) == DictGet(Payload(doc), key)

\* C1: format_response never raises: for every provider response value and
\* every query it returns a document with the keys research_id, query, content,
\* raw_content, citations, usage and metadata.
C1_NeverRaises ==
    fn = "format_response" =>
        /\ IsOk(ret)
        /\ Tag(Val(ret)) = "dict"
        /\ DictKeys(Payload(Val(ret))) = DOCUMENT_KEYS

NoChoices(response_data) ==
    /\ Tag(response_data) = "dict"
    /\ \/ ~DictHas(Payload(response_data), "choices")
       \/ Field(response_data, "choices") = EmptyList

\* research_id, citations and usage of the document are those of the response
\* when it has them
PassedThrough(response_data, doc) ==
    \A key \in {"research_id", "citations", "usage"} :
        DictHas(Payload(response_data), key) =>
            Field(doc, key) = Field(response_data, key)

\* C2: for a provider response without choices, or with an empty list of them,
\* format_response returns a degraded document: content and raw_content are
\* empty, metadata.formatting_failed is true, metadata.error is a message, and
\* research_id, citations and usage are the provider's when it sent them.
C2_DegradedWithoutChoices ==
    (fn = "format_response" /\ NoChoices(arg.response_data)) =>
        /\ IsOk(ret)
        /\ DictKeys(Payload(Val(ret))) = DOCUMENT_KEYS
        /\ Field(Val(ret), "content") = EmptyStr
        /\ Field(Val(ret), "raw_content") = EmptyStr
        /\ DictHas(Payload(Field(Val(ret), "metadata")), "formatting_failed")
        /\ Field(Field(Val(ret), "metadata"), "formatting_failed") = PyBool(TRUE)
        /\ DictHas(Payload(Field(Val(ret), "metadata")), "error")
        /\ Tag(Field(Field(Val(ret), "metadata"), "error")) = "str"
        /\ Field(Field(Val(ret), "metadata"), "error") # EmptyStr
        /\ PassedThrough(arg.response_data, Val(ret))

\* an empty list of choices, with an identifier, usage and citations to pass on
C2_Witness ==
    /\ fn = "format_response"
    /\ Tag(arg.response_data) = "dict"
    /\ DictHas(Payload(arg.response_data), "choices")
    /\ Field(arg.response_data, "choices") = EmptyList
    /\ DictHas(Payload(arg.response_data), "research_id")
    /\ DictHas(Payload(arg.response_data), "usage")
    /\ DictHas(Payload(arg.response_data), "citations")
    /\ Field(arg.response_data, "citations") = PyUrls(<<URL_B, URL_A>>)
    /\ IsOk(ret)
    /\ Field(Val(ret), "citations") = PyUrls(<<URL_B, URL_A>>)

NonBlankLines(text) == SelectSeq(Split(text, <<NL>>), LAMBDA line : line # <<>>)

\* C10: format_citations gives the empty string for the empty list; otherwise
\* its lines are the references heading and then, for the i-th citation
\* counted from 1, the line "[i] url", one per citation, in the order of the
\* input, duplicates included.
C10_OneLinePerCitation ==
    fn = "format_citations" =>
        LET citations == arg.citations
            lines     == NonBlankLines(ret)
        IN  IF citations = <<>> THEN ret = <<>>
            ELSE /\ Len(lines) = Len(citations) + 1
                 /\ lines[1] = REFERENCES_HEADING
                 /\ \A i \in 1..Len(citations) :
                        lines[i + 1] = <<"[">> \o Digits(i) \o <<"]", " ">> \o citations[i]

\* a list that holds the same URL twice, after another one
C10_Witness ==
    /\ fn = "format_citations"
    /\ Len(arg.citations) = 3
    /\ arg.citations[1] # arg.citations[2]
    /\ arg.citations[2] = arg.citations[3]
    /\ Len(NonBlankLines(ret)) = 4

-----------------------------------------------------------------------------
(* Properties of extract_sections and add_scientific_structure, under SpecFmt *)

\* the lines of a text: what lies between its newlines
Lines(text) ==
    LET breaks   == {i \in 1..Len(text) : text[i] = NL}
        n        == Cardinality(breaks)
        \* the position of the k-th newline
        break(k) == CHOOSE b \in breaks : Cardinality({c \in breaks : c < b}) = k - 1
        start(k) == IF k = 1 THEN 1 ELSE break(k - 1) + 1
        stop(k)  == IF k > n THEN Len(text) ELSE break(k) - 1
    IN  [k \in 1..(n + 1) |-> SubSeq(text, start(k), stop(k))]

\* a heading line of level 1 to 3: one to three '#' at the start of the line,
\* whitespace, title
HeadingLine(line) ==
    \E h \in 1..3 :
        /\ Len(line) > h
        /\ \A j \in 1..h : line[j] = "#"
        /\ line[h + 1] \in Whitespace

HeadingLines(text) == SelectSeq(Lines(text), HeadingLine)

Blank(line) == Strip(line) = <<>>

\* the title of a heading line
TitleOf(line) == Strip(SelectSeq(line, LAMBDA c : c # "#"))

\* C11: for a text with N heading lines of level 1 to 3, extract_sections
\* returns a map of at least N entries, one for every heading line, also for
\* a heading whose body is empty.
C11_EntryPerHeading ==
    fn = "extract_sections" => Len(ret) >= Len(HeadingLines(arg.content))

\* the heading at line i has only blank lines before the next heading or the
\* end of the text
EmptyBodied(lines, i) ==
    \A j \in (i + 1)..Len(lines) :
        (\A k \in (i + 1)..j : ~HeadingLine(lines[k])) => Blank(lines[j])

\* C12: every heading without non-blank body text before the next heading or
\* the end of the text is a key of the map of extract_sections, with the empty
\* string as its body; for an empty or whitespace-only text the map is exactly
\* {"Introdução": ""}.
C12_EmptyBodies ==
    fn = "extract_sections" =>
        LET lines == Lines(arg.content)
        IN  /\ Blank(arg.content) => ret = <<<<INTRODUCAO, <<>>>>>>
            /\ \A i \in 1..Len(lines) :
                   (HeadingLine(lines[i]) /\ EmptyBodied(lines, i)) =>
                       /\ DictHas(ret, TitleOf(lines[i]))
                       /\ DictGet(ret, TitleOf(lines[i])) = <<>>

\* the lines of a text that are neither blank nor headings, each trimmed
BodyLines(text) ==
    LET kept == SelectSeq(Lines(text), LAMBDA l : ~Blank(l) /\ ~HeadingLine(l))
    IN  [i \in 1..Len(kept) |-> Strip(kept[i])]

RECURSIVE BodiesOf(_)
\* the non-blank lines of the bodies of a map, trimmed, in the map's order
BodiesOf(sections) ==
    IF sections = <<>> THEN <<>>
    ELSE LET kept == SelectSeq(Lines(Head(sections)[2]), LAMBDA l : ~Blank(l))
         IN  [i \in 1..Len(kept) |-> Strip(kept[i])] \o BodiesOf(Tail(sections))

\* C13: the non-empty bodies of the map of extract_sections, concatenated,
\* are the text without its heading lines, up to the trimming of blank lines
\* and of each line: no body line of the text is lost.
C13_BodiesRecovered ==
    fn = "extract_sections" => BodiesOf(ret) = BodyLines(arg.content)

RECURSIVE IsSubsequence(_, _)
\* the elements of a occur in b in the same order
IsSubsequence(a, b) ==
    IF a = <<>> THEN TRUE
    ELSE IF b = <<>> THEN FALSE
    ELSE IF Head(a) = Head(b) THEN IsSubsequence(Tail(a), Tail(b))
    ELSE IsSubsequence(a, Tail(b))

Occurs(p, s) == \E i \in 1..Len(s) : MatchAt(s, p, i)

EndsWith(s, p) == Len(p) <= Len(s) /\ SubSeq(s, Len(s) - Len(p) + 1, Len(s)) = p

\* C14: when the content has a heading line of level 1 to 3, the output of
\* add_scientific_structure holds every heading line of the content, verbatim
\* and in the original order: the content itself follows the generated title
\* and metadata unchanged.
C14_HeadingsKept ==
    (fn = "add_scientific_structure" /\ HeadingLines(arg.content) # <<>>) =>
        /\ IsSubsequence(HeadingLines(arg.content), Lines(ret))
        /\ Occurs(<<NL, NL>> \o arg.content \o <<NL, NL>>, ret)

\* a level-1 heading after body text, then a level-2 heading
C14_Witness ==
    /\ fn = "add_scientific_structure"
    /\ arg.content = Join(<<NL>>, <<LINE_BODY, LINE_A, REFERENCES_HEADING>>)
    /\ arg.citations # <<>>
    /\ IsSubsequence(<<LINE_A, REFERENCES_HEADING>>, Lines(ret))

CONCLUSAO_HEADING == SubSeq(CONCLUSAO_BLOCK, 1, 12)

CountLines(text, line) ==
    Cardinality({i \in 1..Len(Lines(text)) : Lines(text)[i] = line})

\* C15: when the content has no heading line of level 1 to 3, the output of
\* add_scientific_structure has exactly one "## Conclusão" heading, unless a
\* title found by extract_sections starts with "conclus" in any case of
\* letters, and then none is appended.
C15_OneConclusion ==
    (fn = "add_scientific_structure" /\ HeadingLines(arg.content) = <<>>) =>
        LET sections == extract_sections(arg.content)
            titled   == \E i \in 1..Len(sections) :
                            StartsWith(Lower(sections[i][1]), CONCLUS)
        IN  IF titled THEN ~EndsWith(ret, CONCLUSAO_BLOCK)
            ELSE CountLines(ret, CONCLUSAO_HEADING) = 1

-----------------------------------------------------------------------------
(* Citation discovery of format_response, under SpecFmt *)

KeyOf(x, key) ==
    IF Tag(x) = "dict" /\ DictHas(Payload(x), key) THEN Field(x, key) ELSE Absent

FirstChoice(response_data) == Payload(KeyOf(response_data, "choices"))[1]

\* the three structured sources of citations, in the order of the chain
CitationSource(response_data, k) ==
    CASE k = 1 -> KeyOf(response_data, "citations")
      [] k = 2 -> KeyOf(KeyOf(response_data, "message"), "citations")
      [] k = 3 -> KeyOf(FirstChoice(response_data), "citations")

\* a response with a text in its first choice, whose sources of citations are
\* lists where they are present
WithContent(response_data) ==
    /\ Tag(response_data) = "dict"
    /\ Tag(KeyOf(response_data, "choices")) = "list"
    /\ Payload(KeyOf(response_data, "choices")) # <<>>
    /\ Tag(KeyOf(KeyOf(FirstChoice(response_data), "message"), "content")) = "str"
    /\ \A k \in 1..3 : Tag(CitationSource(response_data, k)) \in {"absent", "list"}

Yields(source) == Tag(source) = "list" /\ Payload(source) # <<>>

\* C17: the citations of the document are those of the first source, among
\* the top-level citations, the citations of the response's message and the
\* citations of the first choice, that is present and non-empty; what a later
\* source holds is ignored.
C17_FirstYieldingSource ==
    (fn = "format_response" /\ WithContent(arg.response_data)) =>
        \A k \in 1..3 :
            (/\ Yields(CitationSource(arg.response_data, k))
             /\ \A j \in 1..(k - 1) : ~Yields(CitationSource(arg.response_data, j)))
                => /\ IsOk(ret)
                   /\ Field(Val(ret), "citations") = CitationSource(arg.response_data, k)

\* C18: when each structured source of citations is absent or an empty list,
\* the citations of the document are the URLs of the inline pattern
\* [<integer>] <http(s) URL> in the content, in the order of their appearance,
\* duplicates kept.
C18_InlineFallback ==
    (/\ fn = "format_response"
     /\ WithContent(arg.response_data)
     /\ \A k \in 1..3 : ~Yields(CitationSource(arg.response_data, k))) =>
        /\ IsOk(ret)
        /\ Field(Val(ret), "citations") =
               PyList(citation_findall(
                   Payload(KeyOf(KeyOf(FirstChoice(arg.response_data), "message"),
                                 "content")), 1))

\* C19: the formatter is a pure function of its inputs: a later call of
\* format_response, or of add_scientific_structure, with the same provider
\* response and the same query returns the document the first call returned,
\* whatever the time of the two calls.
C19_SameDocument ==
    ret_later # NoValue => ret_later = ret

-----------------------------------------------------------------------------
(* Heading recognition and the map of extract_sections, under SpecFmt *)

\* C23: add_scientific_structure takes a content as structured exactly when
\* extract_sections recognises one of its lines as a heading of level 1 to 3
\* (one to three '#' at the start of the line, whitespace, title).
C23_StructureDecisionAgrees ==
    fn = "add_scientific_structure" =>
        (has_sections(arg.content) <=> all_headers(Lines(arg.content)) # <<>>)

\* the index of the first heading line, or one past the last line
FirstHeading(lines) ==
    IF \E i \in 1..Len(lines) : HeadingLine(lines[i])
    THEN CHOOSE i \in 1..Len(lines) :
             HeadingLine(lines[i]) /\ \A j \in 1..(i - 1) : ~HeadingLine(lines[j])
    ELSE Len(lines) + 1

\* what precedes the first heading, trimmed
Preface(text) ==
    LET lines == Lines(text)
    IN  Strip(Join(<<NL>>, SubSeq(lines, 1, FirstHeading(lines) - 1)))

\* C24: when a text has non-blank content before its first heading, the map
\* of extract_sections holds that content, trimmed, under the title
\* "Introdução", whatever headings and bodies follow.
C24_PrefaceUnderIntroducao ==
    (fn = "extract_sections" /\ Preface(arg.content) # <<>>) =>
        /\ DictHas(ret, INTRODUCAO)
        /\ DictGet(ret, INTRODUCAO) = Preface(arg.content)

\* where a title first appears in a text: 0 for the synthetic "Introdução" of
\* the lines before the first heading, else the index of its first heading line
FirstSeen(text, title) ==
    LET lines == Lines(text)
        heads == {i \in 1..Len(lines) : HeadingLine(lines[i]) /\ TitleOf(lines[i]) = title}
    IN  IF heads = {} \/ (title = INTRODUCAO /\ FirstHeading(lines) > 1) THEN 0
        ELSE CHOOSE i \in heads : \A j \in heads : i <= j

\* C25: the keys of the map of extract_sections iterate in the order in which
\* their headings first appear in the text, the synthetic "Introdução" first
\* when it is there.
C25_KeysInFirstSeenOrder ==
    fn = "extract_sections" =>
        \A a, b \in 1..Len(ret) :
            a < b => FirstSeen(arg.content, ret[a][1]) < FirstSeen(arg.content, ret[b][1])

\* C26: a successful execute_research puts a freshly generated research_id
\* on the provider response, in the place of the one the provider sent if it
\* sent one; the document of format_response bears the research_id of the
\* response it was given, and a freshly generated one only when that response
\* has none.
C26_ResearchId ==
    /\ (fn = "execute_research" /\ IsOk(ret)) =>
           KeyOf(Val(ret), "research_id") = PyStr(arg.research_uuid)
    /\ (fn = "format_response" /\ IsOk(ret)) =>
           KeyOf(Val(ret), "research_id") =
               IF KeyOf(arg.response_data, "research_id") # Absent
               THEN KeyOf(arg.response_data, "research_id")
               ELSE PyStr(arg.env.research_uuid)

\* the provider sent a research_id of its own and the call succeeded
C26_Witness ==
    /\ fn = "execute_research"
    /\ IsOk(ret)
    /\ KeyOf(arg.outcome.json, "research_id") = PyStr(RESEARCH_ID)
    /\ KeyOf(Val(ret), "research_id") = PyStr(arg.research_uuid)

-----------------------------------------------------------------------------
(* Properties of the rate limiter, under SpecRate *)

\* C6: with the bypass off, no client has more than RATE_LIMIT_REQUESTS admitted
\* requests in any window (t - RATE_LIMIT_WINDOW_SECONDS, t], and a request
\* that arrives when its client's count in the window is RATE_LIMIT_REQUESTS
\* already is answered 429.
C6_SlidingWindow ==
    ~PYTEST_RUNNING =>
        /\ \A c \in Clients : \A t \in 0..MaxTime :
               InWindow(admitted[c], t) <= RATE_LIMIT_REQUESTS
        /\ (last_check.client \in Clients /\ last_check.before >= RATE_LIMIT_REQUESTS)
               => last_check.status_code = 429

\* a client is refused at the limit after older requests of its own have left
\* the window
C6_Witness ==
    /\ ~PYTEST_RUNNING
    /\ last_check.client = CLIENT_1
    /\ last_check.status_code = 429
    /\ last_check.before = RATE_LIMIT_REQUESTS
    /\ Len(admitted[CLIENT_1]) > RATE_LIMIT_REQUESTS
    /\ admitted[CLIENT_2] # <<>>

\* the timestamps the ledger holds for a client
Ledger(tracker, c) == IF c \in DOMAIN tracker THEN tracker[c] ELSE <<>>

\* the timestamps of a list that the window ending now holds
Current(timestamps) ==
    SelectSeq(timestamps, LAMBDA ts : ts > now - RATE_LIMIT_WINDOW_SECONDS)

\* C22: the ledger request_tracker is safe under concurrent requests: in
\* every interleaving of the rate_limit_check calls of simultaneous requests,
\* of one client or of several, no recorded timestamp is lost, no call fails
\* on a key that another call removed, and no client is admitted more than
\* RATE_LIMIT_REQUESTS times within one window.
C22_LedgerSafe ==
    ~PYTEST_RUNNING =>
        /\ \A c \in Clients :
               /\ Current(Ledger(request_tracker, c)) = Current(admitted[c])
               /\ \A t \in 0..MaxTime : InWindow(admitted[c], t) <= RATE_LIMIT_REQUESTS
        /\ last_check.client \in Clients =>
               /\ last_check.status_code \in {0, 429}
               /\ (last_check.status_code = 0 /\ last_check.time = now) =>
                      /\ last_check.client \in DOMAIN request_tracker
                      /\ \E i \in 1..Len(request_tracker[last_check.client]) :
                             request_tracker[last_check.client][i] = now

\* two clients call at the same instant; the call of the first removed the
\* key of the second, whose only timestamp had left the window, before the
\* second call ran
C22_Witness ==
    /\ ~PYTEST_RUNNING
    /\ now = 2 * TimeStep
    /\ last_check = [client |-> CLIENT_2, time |-> now, status_code |-> 0,
                      before |-> 0, after_refusal |-> FALSE]
    /\ admitted[CLIENT_2] = <<0, now>>
    /\ request_tracker[CLIENT_2] = <<now>>
    /\ \E i \in 1..Len(admitted[CLIENT_1]) : admitted[CLIENT_1][i] = now

\* a refusal leaves in the ledger the client's timestamps of the window and
\* nothing else
RefusalRecordsNothing ==
    (last_check' # last_check /\ last_check'.status_code = 429) =>
        LET c == last_check'.client
        IN  Ledger(request_tracker', c) =
                SelectSeq(Ledger(request_tracker, c),
                          LAMBDA ts : ts > now - RATE_LIMIT_WINDOW_SECONDS)

\* C27: a request refused with 429 adds no timestamp to the ledger, so a
\* client that was refused is admitted by its first request made after its
\* oldest timestamp has left the window, that is once fewer than
\* RATE_LIMIT_REQUESTS of its timestamps are greater than
\* now - RATE_LIMIT_WINDOW_SECONDS, however many requests it sent meanwhile.
C27_ReadmittedAfterRefusal ==
    /\ [][RefusalRecordsNothing]_vars
    /\ []((last_check.after_refusal /\ last_check.before < RATE_LIMIT_REQUESTS)
              => last_check.status_code = 0)

\* a client is refused, then admitted while some of its timestamps are still
\* in the window
C27_Witness ==
    /\ ~PYTEST_RUNNING
    /\ last_check.client = CLIENT_1
    /\ last_check.after_refusal
    /\ last_check.status_code = 0
    /\ last_check.before \in 1..(RATE_LIMIT_REQUESTS - 1)

-----------------------------------------------------------------------------
(* Properties of the request pipeline, under Spec *)

Answered == pc = "responded"

\* the provider's part in the last POST
LastOutcome == trace[Len(trace)]

StatusFailure(o) == o.kind = "response" /\ ~(200 <= o.status_code /\ o.status_code <= 299)

TransportFailure(o) == o.kind \in {"RequestError", "TimeoutError"}

\* the detail of an error answer, and one field of it when it is a mapping
Detail == Field(response.body, "detail")

DetailField(key) ==
    IF Tag(Detail) = "dict" /\ DictHas(Payload(Detail), key)
    THEN Field(Detail, key) ELSE Absent

\* C3: when every attempt ends in a transport error, execute_research makes
\* exactly MAX_RETRIES POSTs, sleeping between them, and the endpoint then
\* answers with a 5xx status.
C3_TransportErrorsRetried ==
    (Answered /\ trace # <<>> /\ \A i \in 1..Len(trace) : TransportFailure(trace[i])) =>
        /\ posts = MAX_RETRIES
        /\ Len(delays) = MAX_RETRIES - 1
        /\ response.status_code >= 500

\* C4: a status reply outside 2xx is never retried: the request it answers
\* makes exactly one POST and ends with the provider error that carries the
\* reply's status code.
C4_StatusErrorsNotRetried ==
    (trace # <<>> /\ StatusFailure(trace[1])) =>
        /\ Answered
        /\ posts = 1
        /\ Len(trace) = 1
        /\ delays = <<>>
        /\ DetailField("code") = PyStr(<<"perplexity_api_error">>)
        /\ response.status_code = trace[1].status_code

C4_Witness ==
    /\ Answered
    /\ trace # <<>>
    /\ StatusFailure(trace[1])
    /\ trace[1].status_code = 503
    /\ posts = 1
    /\ response.status_code = 503

\* the provider's error.message, when the reply's body is a mapping that holds
\* one
ProviderMessage(o) ==
    IF /\ o.kind = "response"
       /\ Tag(o.json) = "dict"
       /\ DictHas(Payload(o.json), "error")
       /\ Tag(Field(o.json, "error")) = "dict"
       /\ DictHas(Payload(Field(o.json, "error")), "message")
    THEN Field(Field(o.json, "error"), "message")
    ELSE Absent

\* the failures of the provider: a status outside 2xx, a transport error, a
\* 2xx reply that is no JSON mapping
ProviderFailed(o) ==
    StatusFailure(o) \/ TransportFailure(o) \/ o.json = NotJson \/ Tag(o.json) # "dict"

\* C5: a provider failure is answered with the provider's status code when the
\* failure carries one and with 500 otherwise; the message is the provider's
\* error.message when the reply's body is a mapping that holds one, and the
\* text of the exception otherwise.
C5_ProviderFailureMapping ==
    (Answered /\ trace # <<>> /\ ProviderFailed(LastOutcome)) =>
        LET o == LastOutcome
            e == Exc(execute_research_once(o, UUID_1))
        IN  /\ response.status_code =
                   IF StatusFailure(o) THEN o.status_code ELSE 500
            /\ DetailField("code") = PyStr(<<"perplexity_api_error">>)
            /\ DetailField("message") =
                   IF StatusFailure(o) /\ ProviderMessage(o) # Absent
                   THEN ProviderMessage(o) ELSE e.message

\* a 429 of the provider with a message of its own
C5_Witness ==
    /\ Answered
    /\ trace # <<>>
    /\ StatusFailure(LastOutcome)
    /\ LastOutcome.status_code = 429
    /\ ProviderMessage(LastOutcome) = PyStr(<<"Invalid API key">>)
    /\ response.status_code = 429
    /\ DetailField("message") = PyStr(<<"Invalid API key">>)

KeyMatches == req.api_key = SCIFLOW_API_KEY

KeyMissing == req.api_key \in {PyNone, EmptyStr}

\* the answer of verify_api_key to the key of the request
AuthRefusal ==
    IF KeyMissing
    THEN response.status_code = 401 /\ DetailField("code") = PyStr(<<"missing_api_key">>)
    ELSE response.status_code = 403 /\ DetailField("code") = PyStr(<<"invalid_api_key">>)

\* the client of the request has RATE_LIMIT_REQUESTS requests on record
AtLimit ==
    /\ req.client \in DOMAIN request_tracker
    /\ Len(request_tracker[req.client]) = RATE_LIMIT_REQUESTS

\* C7 as stated: with the bypass off, a request whose key is missing or differs
\* from the configured one makes no POST; it is answered 401 missing_api_key
\* when the key is missing or empty and 403 invalid_api_key when it differs.
C7_KeyRefusedAsStated ==
    (~PYTEST_RUNNING /\ pc # "idle" /\ ~KeyMatches) =>
        /\ Answered
        /\ posts = 0
        /\ AuthRefusal

\* C7, amended: with the bypass off, a request whose key is missing or differs
\* from the configured one makes no POST, and only a request with the matching
\* key does; it is answered 429 when the rate limiter, which runs first, refuses
\* it, and otherwise 401 missing_api_key or 403 invalid_api_key.
C7_KeyRefused ==
    ~PYTEST_RUNNING =>
        /\ (pc # "idle" /\ ~KeyMatches) =>
               /\ Answered
               /\ posts = 0
               /\ trace = <<>>
               /\ IF response.status_code = 429 THEN AtLimit ELSE AuthRefusal
        /\ (posts > 0 \/ pc = "waiting") => KeyMatches

\* a wrong key and a missing one, each refused before any POST
C7_Witness ==
    /\ ~PYTEST_RUNNING
    /\ Answered
    /\ req.api_key = PyStr(<<"wrong-key">>)
    /\ response.status_code = 403
    /\ DetailField("code") = PyStr(<<"invalid_api_key">>)
    /\ posts = 0
    /\ req.client \in DOMAIN request_tracker

\* The constraints on the fields of a body, as the claim lists them: the
\* fields of the body that violate theirs
Outside(x, lo, hi) == x # Absent /\ (Payload(x) < lo \/ Payload(x) > hi)

ViolatedFields(body) ==
    {f \in {"query"} :
         \/ body.query = Absent
         \/ Len(Payload(body.query)) \notin 5..500}
    \cup {f \in {"temperature"} :
              body.temperature # Absent /\ Payload(body.temperature) \notin 0..199}
    \cup {f \in {"top_p"} : Outside(body.top_p, 0, 100)}
    \cup {f \in {"frequency_penalty"} : Outside(body.frequency_penalty, 0, 200)}
    \cup {f \in {"presence_penalty"} : Outside(body.presence_penalty, 0, 200)}
    \cup {f \in {"search_recency_filter"} :
              /\ body.search_recency_filter # Absent
              /\ body.search_recency_filter
                     \notin {PyStr(<<r>>) : r \in {"day", "week", "month", "year", "none"}}}

\* the fields that the entries of a 422 name: the last element of each loc
NamedFields ==
    IF Tag(Detail) # "list" THEN {}
    ELSE {Payload(Payload(Field(Payload(Detail)[i], "loc"))
                      [Len(Payload(Field(Payload(Detail)[i], "loc")))])[1] :
              i \in 1..Len(Payload(Detail))}

\* C8 as stated: a body that violates a field constraint is answered 422 with
\* details that name each violated field, and no POST is made for it.
C8_InvalidBodyAsStated ==
    (pc # "idle" /\ ViolatedFields(req.body) # {}) =>
        /\ Answered
        /\ posts = 0
        /\ response.status_code = 422
        /\ NamedFields = ViolatedFields(req.body)

\* C8, amended: no POST is made for a body that violates a field constraint;
\* it is answered 422 with details that name each violated field when the
\* rate limiter and the key check, which run first, let the request pass, and
\* with their 429, 401 or 403 otherwise.
C8_InvalidBody ==
    (pc # "idle" /\ ViolatedFields(req.body) # {}) =>
        /\ Answered
        /\ posts = 0
        /\ trace = <<>>
        /\ IF PYTEST_RUNNING \/ (KeyMatches /\ response.status_code # 429)
           THEN /\ response.status_code = 422
                /\ NamedFields = ViolatedFields(req.body)
           ELSE \/ response.status_code = 429 /\ AtLimit
                \/ response.status_code # 429 /\ AuthRefusal

\* the body of test_deep_research_invalid_options, sent with the matching key
C8_Witness ==
    /\ ~PYTEST_RUNNING
    /\ Answered
    /\ KeyMatches
    /\ ViolatedFields(req.body) = {"temperature", "top_p"}
    /\ response.status_code = 422
    /\ NamedFields = {"temperature", "top_p"}
    /\ posts = 0

\* C9: every error answer of the pipeline has the JSON shape
\* {error: true, message, code, details}.
C9_ErrorShape ==
    (Answered /\ response.status_code >= 400) =>
        /\ Tag(response.body) = "dict"
        /\ {DictKeys(Payload(response.body))[i] :
                i \in 1..Len(Payload(response.body))}
               = {"error", "message", "code", "details"}
        /\ Field(response.body, "error") = PyBool(TRUE)

-----------------------------------------------------------------------------
(* The order of the dependencies of deep_research, under Spec *)

\* what the arrival of a request from a client with an address does to the
\* ledger and what answer it gets, with the bypass off
CountedBeforeKey ==
    (pc = "idle" /\ pc' # "idle" /\ ~PYTEST_RUNNING /\ req'.client # NoClient) =>
        LET c    == req'.client
            held == Ledger(request_tracker, c)
        IN  IF Len(held) >= RATE_LIMIT_REQUESTS
            THEN /\ response'.status_code = 429
                 /\ Ledger(request_tracker', c) = held
            ELSE /\ Ledger(request_tracker', c) = Append(held, now)
                 /\ req'.api_key = SCIFLOW_API_KEY \/ response'.status_code \in {401, 403}

\* C28: the rate-limit check runs before the key check for every request: a
\* request whose key is missing or wrong is recorded in the ledger of its
\* client before it is answered 401 or 403, and a client over the limit is
\* answered 429 whatever key it sends.
C28_RateLimitBeforeKey == [][CountedBeforeKey]_vars

\* a client at the limit sends a request without a key and is answered 429
C28_Witness ==
    /\ ~PYTEST_RUNNING
    /\ Answered
    /\ KeyMissing
    /\ AtLimit
    /\ response.status_code = 429

-----------------------------------------------------------------------------
(* What leaves execute_research, under Spec *)

\* the POST did not end in a 2xx response with a JSON object as its body
CallFailed(outcome) ==
    \/ outcome.kind # "response"
    \/ ~is_success(outcome.status_code)
    \/ outcome.json = NotJson
    \/ Tag(outcome.json) # "dict"

\* C29: every failure inside the outbound call of execute_research (a status
\* that is not 2xx, a transport error, a timeout, a success body that is not
\* JSON or not a mapping) leaves the function as a PerplexityApiException and
\* as no other type, so the tenacity wrapper never sees an httpx.RequestError
\* or an asyncio.TimeoutError, never calls again and never raises RetryError;
\* the exception carries a status code only for a status that is not 2xx.
C29_OnlyPerplexityApiException ==
    /\ Len(trace) <= 1 /\ posts <= 1 /\ delays = <<>>
    /\ result # NoResult =>
           IF CallFailed(LastOutcome)
           THEN /\ ~IsOk(result)
                /\ Exc(result).type = "PerplexityApiException"
                /\ Exc(result).status_code # PyNone <=>
                       (/\ LastOutcome.kind = "response"
                        /\ ~is_success(LastOutcome.status_code))
           ELSE IsOk(result)

\* a timeout of the POST has left execute_research
C29_Witness ==
    /\ Answered
    /\ trace # <<>>
    /\ LastOutcome.kind = "TimeoutError"
    /\ ~IsOk(result)
    /\ Exc(result).type = "PerplexityApiException"
    /\ Exc(result).status_code = PyNone

-----------------------------------------------------------------------------
(* The time spent in execute_research, under Spec *)

\* C21: the time execute_research spends on one request, all attempts and
\* backoff delays together, is at most REQUEST_TIMEOUT_SECONDS: the attempts
\* share one timeout budget, which a retry does not reset.
C21_TimeoutBudget == elapsed <= REQUEST_TIMEOUT_SECONDS

-----------------------------------------------------------------------------
(* The domain allow-list of the outbound payload, under Spec *)

\* main.py:18, the provider's limit on the entries of search_domain_filter
DOMAIN_FILTER_LIMIT == 10

\* C20: the domain allow-list of every outbound payload has at most
\* DOMAIN_FILTER_LIMIT entries: whatever search_domain_filter the caller
\* supplies, the request is rejected or the list that is sent is cut to the
\* limit.
C20_DomainFilterBounded ==
    posts > 0 =>
        LET sent == KeyOf(payload, "search_domain_filter")
        IN  sent = Absent \/ Len(Payload(sent)) <= DOMAIN_FILTER_LIMIT

=========================================================================
